---- MODULE Spec2Model ----
(***************************************************************************)
(* Model of raspberry-pi-camera/capture.py: the capture / queue / upload   *)
(* loop of CameraCapture and USBCameraCapture.                             *)
(*                                                                         *)
(* One process runs run(): validate_config, init_s3, init_camera, then the *)
(* loop upload_pending -> capture_image -> upload_to_s3 -> sleep.  The     *)
(* fallback directory and the bucket outlive the process; SpecRestart lets *)
(* a new process start over the same directory and bucket.  SIGINT comes   *)
(* as KeyboardInterrupt between any two steps; it is a BaseException, so   *)
(* the `except Exception` handlers of capture_image and upload_to_s3 do    *)
(* not catch it.  The wall clock is counted in whole seconds.              *)
(*                                                                         *)
(* Specifications:                                                         *)
(*   Spec            one process, every outcome of every step              *)
(*   SpecRestart     Spec, and the process started again after its exit    *)
(*   SpecThreeTicks  three ticks one second apart, storage down in tick 2  *)
(*   SpecAfterAck    processes cut between put_object and os.remove        *)
(*   SpecRecovered   the storage answers from RecoveryTime on; fair loop   *)
(*   SpecPurge       Spec, and files deleted from outside the process      *)
(***************************************************************************)
EXTENDS Integers, FiniteSets, Sequences, TLC

\* ---- bounds of the model ----
MaxTime == 4
MaxInterval == 2
MaxRestarts == 1
RecoveryTime == 3     \* the second from which every put_object is acknowledged

VARIABLES
  variant,          \* "pi" (CameraCapture) or "usb" (USBCameraCapture)
  camera_id, s3_endpoint, s3_access_key, s3_secret_key, s3_bucket,
  capture_interval,
  pc,               \* position of the process in run()
  s3_client,        \* self.s3_client: "None" or "client"
  camera,           \* self.camera: "None" or "handle"
  cam_state,        \* the device: "none", "acquired", "started", "released"
  now,              \* wall clock, seconds
  files,            \* paths present in FALLBACK_IMAGE_DIR
  bucket,           \* objects of the bucket
  pending_files,    \* upload_pending: entries of the listing not yet visited
  local_path, timestamp,   \* arguments / locals of capture_image, upload_to_s3
  caller,           \* who called upload_to_s3: "drain" or "new"
  exit_code,        \* -1 while the process runs
  restarts,         \* processes started after the first
  exit_kind,        \* "running", "config", "camera", "signal", "interrupt_startup", "error"
  \* ---- observers (history of the run, read only by the properties) ----
  captured,         \* timestamps for which capture_image returned a path
  last_result,      \* the latest return of upload_to_s3(local_path, timestamp):
                    \* "true", "false", or "none" once its caller has moved on
  listed,           \* the listing upload_pending made in this tick
  attempts,         \* upload attempts per path made by the drain of this tick
  failed,           \* paths whose latest upload attempt returned False
  degraded,         \* init_s3 returned False and no put_object was acknowledged since
  s3_attempted, cam_attempted, ran_loop,
  files_at_start    \* the directory when the process started (kept during startup)

cfgvars == <<variant, camera_id, s3_endpoint, s3_access_key, s3_secret_key,
             s3_bucket, capture_interval>>
obsvars == <<captured, last_result, listed, attempts, failed, degraded, s3_attempted,
             cam_attempted, ran_loop, files_at_start>>
vars == <<cfgvars, pc, s3_client, camera, cam_state, now, files, bucket,
          pending_files, local_path, timestamp, caller, exit_code, exit_kind,
          restarts, obsvars>>

\* ---- pure helpers ----

\* datetime.now().strftime("%Y-%m-%dT%H-%M-%S"): broken-down time, second precision
strftime(t) == <<t \div 60, t % 60>>

\* FALLBACK_IMAGE_DIR / f"{timestamp}.jpg"
Path(ts) == <<ts, "jpg">>

\* mutant: the stem loses its seconds
Stem_minutes(p) == <<p[1][1], 0>>

\* file_path.stem
Stem(p) == p[1]

\* f"cameras/{self.camera_id}/{timestamp}.jpg"
s3_key(cid, ts) == <<"cameras", cid, ts, "jpg">>

Timestamps == {strftime(t) : t \in 0..MaxTime}
AllPaths == {Path(ts) : ts \in Timestamps}
NoPath == <<>>

\* the object put_object stores
PutRequest(cid, ts) ==
  [Key |-> s3_key(cid, ts), ContentType |-> "image/jpeg",
   Metadata |-> [camera_id |-> cid, captured_at |-> ts,
                 source |-> "viali-raspberry-pi"]]

\* the bucket after an acknowledged put_object: a key holds one object
put_object(b, obj) == {o \in b : o.Key # obj.Key} \cup {obj}

\* mutant: the file is not removed after the acknowledged upload
os_remove_noop(fs, p) == fs

\* os.remove(local_path)
os_remove(fs, p) == fs \ {p}

\* mutant: the listing misses one entry
glob_jpg_skips_one(fs) == IF fs = {} THEN {} ELSE fs \ {CHOOSE p \in fs : TRUE}

\* list(FALLBACK_IMAGE_DIR.glob("*.jpg"))
glob_jpg(fs) == {p \in fs : p[2] = "jpg"}

\* mutant: the default camera id is accepted
validate_config_accepts_default ==
  /\ s3_endpoint # ""
  /\ s3_access_key # ""
  /\ s3_secret_key # ""
  /\ s3_bucket # ""
  /\ camera_id # ""

\* validate_config(): True iff nothing is missing
validate_config ==
  /\ s3_endpoint # ""
  /\ s3_access_key # ""
  /\ s3_secret_key # ""
  /\ s3_bucket # ""
  /\ ~(camera_id = "" \/ camera_id = "cam-unknown")

\* Outcomes of init_camera.  "import_error": the driver module is missing;
\* "ctor_error": Picamera2() / cv2.VideoCapture(0) raises, self.camera stays None;
\* "init_error": configure() / start() raises after self.camera was assigned;
\* "not_opened": isOpened() is False after self.camera was assigned.
InitOutcomes ==
  IF variant = "pi" THEN {"ok", "import_error", "ctor_error", "init_error"}
                    ELSE {"ok", "import_error", "ctor_error", "not_opened"}

\* Outcomes of the driver call in capture_image.  "ok": the file is written.
\* "error": capture_file raises and leaves nothing; "read_failed": camera.read()
\* returns ret = False or raises; "error_partial": the call raises after it has
\* created the file (neither except branch removes local_path);
\* "imwrite_false": cv2.imwrite writes nothing and returns False, which line 250
\* does not look at, so capture_image returns local_path, timestamp.
CaptureOutcomes ==
  IF variant = "pi" THEN {"ok", "error", "error_partial"}
                    ELSE {"ok", "read_failed", "imwrite_false", "error_partial"}

\* ---- initial state: a fresh process, an empty directory and bucket ----
Init ==
  /\ variant \in {"pi", "usb"}
  /\ camera_id \in {"", "cam-unknown", "cam-1"}
  /\ s3_endpoint \in {"", "https://sos"}
  /\ s3_access_key \in {"", "key"}
  /\ s3_secret_key \in {"", "secret"}
  /\ s3_bucket \in {"", "bucket"}
  /\ capture_interval \in 1..MaxInterval
  /\ pc = "validate"
  /\ s3_client = "None"
  /\ camera = "None"
  /\ cam_state = "none"
  /\ now = 0
  /\ files = {}
  /\ bucket = {}
  /\ pending_files = {}
  /\ local_path = NoPath
  /\ timestamp = NoPath
  /\ caller = "none"
  /\ exit_code = -1
  /\ exit_kind = "running"
  /\ restarts = 0
  /\ captured = {}
  /\ last_result = "none"
  /\ listed = {}
  /\ attempts = [p \in AllPaths |-> 0]
  /\ failed = {}
  /\ degraded = FALSE
  /\ s3_attempted = FALSE
  /\ cam_attempted = FALSE
  /\ ran_loop = FALSE
  /\ files_at_start = {}

store == <<files, bucket>>
devvars == <<s3_client, camera, cam_state>>
callvars == <<pending_files, local_path, timestamp, caller>>
startobs == <<degraded, s3_attempted, cam_attempted, ran_loop, files_at_start>>
tickobs == <<captured, last_result, listed, attempts, failed>>
NoAttempts == [p \in AllPaths |-> 0]

\* sys.exit(code) / the end of the process
Exit(code, kind) ==
  /\ pc' = "exited"
  /\ exit_code' = code
  /\ exit_kind' = kind

\* mutant: the camera is opened without the storage connect before it
run_skips_init_s3 == "init_camera"

\* run(): the step that follows a successful validate_config()
run_after_validate == "init_s3"

\* run(): if not self.validate_config(): sys.exit(1)
ValidateConfig ==
  /\ UNCHANGED restarts
  /\ pc = "validate"
  /\ IF validate_config
       THEN pc' = run_after_validate /\ UNCHANGED <<exit_code, exit_kind>>
       ELSE Exit(1, "config")
  /\ UNCHANGED <<cfgvars, devvars, now, store, callvars, obsvars>>

\* init_s3(): boto3.client(...) then list_buckets(); run() only logs a failure
InitS3 ==
  /\ UNCHANGED restarts
  /\ pc = "init_s3"
  /\ \E outcome \in {"ok", "client_error", "unreachable"} :
       /\ s3_client' = IF outcome = "client_error" THEN "None" ELSE "client"
       /\ degraded' = (outcome # "ok")
  /\ s3_attempted' = TRUE
  /\ pc' = "init_camera"
  /\ UNCHANGED <<cfgvars, camera, cam_state, now, store, callvars, exit_code,
                 exit_kind, tickobs, cam_attempted, ran_loop,
                 files_at_start>>

\* mutant: the loop starts with the capture, without upload_pending
run_loop_top_capture == "capture"

\* run(): while True: self.upload_pending() is the first statement of the loop
run_loop_top == "upload_pending"

\* run(): what follows init_camera() returning ok (True) or not (False)
run_after_init_camera(ok) == IF ok THEN run_loop_top ELSE "exited"

\* init_camera(): time.sleep(2) after Picamera2.start(); USBCameraCapture has none
camera_warmup == IF variant = "pi" THEN 2 ELSE 0

\* init_camera() of either variant; run(): if not self.init_camera(): sys.exit(1)
InitCamera ==
  /\ UNCHANGED restarts
  /\ pc = "init_camera"
  /\ cam_attempted' = TRUE
  /\ \E outcome \in InitOutcomes :
       /\ \/ /\ outcome = "ok"
             /\ now + camera_warmup <= MaxTime
             /\ now' = now + camera_warmup
             /\ camera' = "handle"
             /\ cam_state' = "started"
          \/ /\ outcome \in {"import_error", "ctor_error"}
             /\ UNCHANGED <<camera, cam_state, now>>
          \/ /\ outcome \in {"init_error", "not_opened"}
             /\ camera' = "handle"
             /\ cam_state' = "acquired"
             /\ UNCHANGED now
       /\ pc' = run_after_init_camera(outcome = "ok")
       /\ IF pc' = "exited"
            THEN /\ exit_code' = 1
                 /\ exit_kind' = "camera"
                 /\ UNCHANGED <<ran_loop, files_at_start>>
            ELSE /\ ran_loop' = TRUE
                 /\ files_at_start' = {}
                 /\ UNCHANGED <<exit_code, exit_kind>>
  /\ UNCHANGED <<cfgvars, s3_client, store, callvars, tickobs,
                 degraded, s3_attempted>>

\* upload_pending(): pending_files = list(FALLBACK_IMAGE_DIR.glob("*.jpg"))
UploadPendingList ==
  /\ UNCHANGED restarts
  /\ pc = "upload_pending"
  /\ pending_files' = glob_jpg(files)
  /\ listed' = files
  /\ attempts' = NoAttempts
  /\ last_result' = "none"
  /\ pc' = "drain"
  /\ UNCHANGED <<cfgvars, devvars, now, store, local_path, timestamp, caller,
                 exit_code, exit_kind, captured, failed, startobs>>

\* upload_pending(): for file_path in pending_files: timestamp = file_path.stem
UploadPendingNext ==
  /\ UNCHANGED restarts
  /\ pc = "drain"
  /\ pending_files # {}
  /\ \E f \in pending_files :
       /\ pending_files' = pending_files \ {f}
       /\ local_path' = f
       /\ timestamp' = Stem(f)
       /\ attempts' = [attempts EXCEPT ![f] = @ + 1]
       /\ failed' = failed \ {f}
  /\ caller' = "drain"
  /\ last_result' = "none"
  /\ pc' = "put"
  /\ UNCHANGED <<cfgvars, devvars, now, store, exit_code, exit_kind,
                 captured, listed, startobs>>

\* upload_pending() returns: the listing was empty, or the loop is exhausted
UploadPendingDone ==
  /\ UNCHANGED restarts
  /\ pc = "drain"
  /\ pending_files = {}
  /\ pc' = "capture"
  /\ UNCHANGED <<cfgvars, devvars, now, store, callvars, exit_code, exit_kind, obsvars>>

\* mutant: a failed upload deletes the file
upload_failed_delete(fs, p) == fs \ {p}

\* upload_to_s3(): the except branch logs and leaves the file where it is
upload_failed_keep(fs, p) == fs

\* mutant: a False return is raised past the loop instead
UploadReturn_raises(result) ==
  /\ last_result' = result
  /\ failed' = IF result = "false" THEN failed \cup {local_path}
                                   ELSE failed \ {local_path}
  /\ pc' = IF result = "false" THEN "finally"
           ELSE IF caller = "drain" THEN "drain" ELSE "sleep"

\* upload_to_s3 returns to its caller: upload_pending's loop, or run() before sleep
UploadReturn(result) ==
  /\ last_result' = result
  /\ failed' = IF result = "false" THEN failed \cup {local_path}
                                   ELSE failed \ {local_path}
  /\ pc' = IF caller = "drain" THEN "drain" ELSE "sleep"

\* upload_to_s3(): open(local_path) and put_object; any Exception returns False
UploadPut ==
  /\ UNCHANGED restarts
  /\ pc = "put"
  /\ \E acked \in BOOLEAN :
       IF local_path \in files /\ s3_client = "client" /\ acked
         THEN /\ bucket' = put_object(bucket, PutRequest(camera_id, timestamp))
              /\ degraded' = FALSE
              /\ pc' = "remove"
              /\ UNCHANGED <<files, last_result, failed>>
         ELSE /\ UploadReturn("false")
              /\ files' = upload_failed_keep(files, local_path)
              /\ UNCHANGED <<bucket, degraded>>
  /\ UNCHANGED <<cfgvars, devvars, now, callvars, exit_code,
                 exit_kind, captured, listed, attempts, s3_attempted,
                 cam_attempted, ran_loop, files_at_start>>

\* upload_to_s3(): os.remove(local_path); return True
UploadRemove ==
  /\ UNCHANGED restarts
  /\ pc = "remove"
  /\ IF local_path \in files
       THEN /\ files' = os_remove(files, local_path)
            /\ UploadReturn("true")
       ELSE /\ UploadReturn("false")
            /\ UNCHANGED files
  /\ UNCHANGED <<cfgvars, devvars, now, bucket, callvars, exit_code, exit_kind, captured, listed, attempts, startobs>>

\* capture_image(): timestamp, filename, local_path
CaptureBegin ==
  /\ UNCHANGED restarts
  /\ pc = "capture"
  /\ timestamp' = strftime(now)
  /\ local_path' = Path(strftime(now))
  /\ last_result' = "none"
  /\ pc' = "capturing"
  /\ UNCHANGED <<cfgvars, devvars, now, store, pending_files, caller, exit_code,
                 exit_kind, captured, listed, attempts, failed, startobs>>

\* capture_image(): the driver call and the return; run(): if local_path: upload
CaptureEnd ==
  /\ UNCHANGED restarts
  /\ pc = "capturing"
  /\ \E outcome \in CaptureOutcomes :
       \/ /\ outcome = "ok"
          /\ files' = files \cup {local_path}
          /\ captured' = captured \cup {timestamp}
          /\ caller' = "new"
          /\ pc' = "put"
       \/ /\ outcome = "imwrite_false"
          /\ captured' = captured \cup {timestamp}
          /\ caller' = "new"
          /\ pc' = "put"
          /\ UNCHANGED files
       \/ /\ outcome \in {"error", "read_failed"}
          /\ pc' = "sleep"
          /\ UNCHANGED <<files, captured, caller>>
       \/ /\ outcome = "error_partial"
          /\ files' = files \cup {local_path}
          /\ pc' = "sleep"
          /\ UNCHANGED <<captured, caller>>
  /\ UNCHANGED <<cfgvars, devvars, now, bucket, pending_files, local_path,
                 timestamp, exit_code, exit_kind, last_result, listed,
                 attempts, failed, startobs>>

\* run(): time.sleep(self.capture_interval), then the next iteration
Sleep ==
  /\ UNCHANGED restarts
  /\ pc = "sleep"
  /\ now + capture_interval <= MaxTime
  /\ now' = now + capture_interval
  /\ pc' = run_loop_top
  /\ pending_files' = {}
  /\ local_path' = NoPath
  /\ timestamp' = NoPath
  /\ caller' = "none"
  /\ last_result' = "none"
  /\ listed' = {}
  /\ attempts' = NoAttempts
  /\ UNCHANGED <<cfgvars, devvars, store, exit_code, exit_kind,
                 captured, failed, startobs>>

\* SIGINT: KeyboardInterrupt raised at the current step; before the try block it
\* ends the process, inside it control goes to the except / finally clauses
KeyboardInterrupt ==
  /\ UNCHANGED restarts
  /\ pc \notin {"exited", "finally"}
  /\ IF pc \in {"validate", "init_s3", "init_camera"}
       THEN /\ Exit(130, "interrupt_startup")
            /\ UNCHANGED files
       ELSE /\ pc' = "finally"
            /\ UNCHANGED <<exit_code, exit_kind>>
            /\ IF pc = "capturing"
                 THEN \E left \in BOOLEAN :
                        files' = IF left THEN files \cup {local_path} ELSE files
                 ELSE UNCHANGED files
  /\ pending_files' = {}
  /\ local_path' = NoPath
  /\ timestamp' = NoPath
  /\ caller' = "none"
  /\ last_result' = "none"
  /\ listed' = {}
  /\ attempts' = NoAttempts
  /\ UNCHANGED <<cfgvars, devvars, now, bucket, captured, failed,
                 startobs>>

\* run(): finally: if self.camera: self.camera.stop(); self.camera.close()
\* (cv2.VideoCapture has neither stop() nor close(): AttributeError)
Finally ==
  /\ UNCHANGED restarts
  /\ pc = "finally"
  /\ IF camera = "None"
       THEN Exit(0, "signal") /\ UNCHANGED cam_state
       ELSE IF variant = "pi"
         THEN Exit(0, "signal") /\ cam_state' = "released"
         ELSE Exit(1, "error") /\ UNCHANGED cam_state
  /\ UNCHANGED <<cfgvars, s3_client, camera, now, store, callvars,
                 obsvars>>

\* a new process: __main__ constructs the capture object and calls run()
Restart ==
  /\ pc = "exited"
  /\ restarts < MaxRestarts
  /\ restarts' = restarts + 1
  /\ \E d \in 0..1 :
       /\ now + d <= MaxTime
       /\ now' = now + d
  /\ pc' = "validate"
  /\ s3_client' = "None"
  /\ camera' = "None"
  /\ cam_state' = "none"
  /\ exit_code' = -1
  /\ exit_kind' = "running"
  /\ degraded' = FALSE
  /\ s3_attempted' = FALSE
  /\ cam_attempted' = FALSE
  /\ ran_loop' = FALSE
  /\ files_at_start' = files
  /\ UNCHANGED <<cfgvars, store, callvars, tickobs>>

Next ==
  \/ ValidateConfig
  \/ InitS3
  \/ InitCamera
  \/ UploadPendingList
  \/ UploadPendingNext
  \/ UploadPendingDone
  \/ UploadPut
  \/ UploadRemove
  \/ CaptureBegin
  \/ CaptureEnd
  \/ Sleep
  \/ KeyboardInterrupt
  \/ Finally

\* one process, from its start to its exit
Spec == Init /\ [][Next]_vars

\* the same, with the process started again after it has exited
NextRestart ==
  \/ Next
  \/ Restart

SpecRestart == Init /\ [][NextRestart]_vars

\* ---- the directory is shared with the rest of the system ----

\* something other than this process (an operator, a cleanup job, a second
\* instance of the service) deletes a file of FALLBACK_IMAGE_DIR while the
\* process runs
Purge ==
  /\ pc \notin {"validate", "init_s3", "init_camera", "finally", "exited"}
  /\ \E f \in files : files' = files \ {f}
  /\ UNCHANGED <<cfgvars, pc, devvars, now, bucket, callvars, exit_code,
                 exit_kind, restarts, obsvars>>

NextPurge ==
  \/ Next
  \/ Purge

SpecPurge == Init /\ [][NextPurge]_vars

\* ---- a run of three ticks, one second apart ----

\* the tick of the loop that is under way (CAPTURE_INTERVAL_SECONDS=1, first tick
\* right after init_camera)
Tick == now - camera_warmup + 1

\* valid configuration, one-second interval, empty fallback directory and bucket
InitThreeTicks ==
  /\ Init
  /\ validate_config
  /\ capture_interval = 1

\* init_s3(): the client is created (list_buckets may still fail)
InitS3Created == InitS3 /\ s3_client' = "client"

\* upload_to_s3(): put_object is acknowledged in ticks 1 and 3 and fails in tick 2
UploadPutThreeTicks ==
  /\ UploadPut
  /\ Tick \in {1, 3} => pc' = "remove"
  /\ Tick = 2 => pc' # "remove"

\* capture_image(): the driver writes the file and the call returns the path
CaptureEndOk == CaptureEnd /\ pc' = "put" /\ local_path \in files'

NextThreeTicks ==
  \/ ValidateConfig
  \/ InitS3Created
  \/ InitCamera
  \/ UploadPendingList
  \/ UploadPendingNext
  \/ UploadPendingDone
  \/ UploadPutThreeTicks
  \/ UploadRemove
  \/ CaptureBegin
  \/ CaptureEndOk
  \/ Sleep

SpecThreeTicks == InitThreeTicks /\ [][NextThreeTicks]_vars

\* ---- a process cut between put_object and os.remove, and its successor ----

\* a configuration that validate_config accepts
InitValid == Init /\ validate_config

\* KeyboardInterrupt after put_object returned and before os.remove ran
InterruptAfterAck == KeyboardInterrupt /\ pc = "remove"

\* processes whose captures are all written and which nothing else interrupts
NextAfterAck ==
  \/ ValidateConfig
  \/ InitS3
  \/ InitCamera
  \/ UploadPendingList
  \/ UploadPendingNext
  \/ UploadPendingDone
  \/ UploadPut
  \/ UploadRemove
  \/ CaptureBegin
  \/ CaptureEndOk
  \/ Sleep
  \/ InterruptAfterAck
  \/ Finally
  \/ Restart

SpecAfterAck == InitValid /\ [][NextAfterAck]_vars

\* ---- the storage recovers for good and the loop keeps running ----

\* the storage answers from RecoveryTime on
Recovered == now >= RecoveryTime

\* upload_to_s3(): once the storage has recovered, a put_object that is made
\* (the client exists, the file opens) is acknowledged
UploadPutRecovered ==
  /\ UploadPut
  /\ (Recovered /\ local_path \in files /\ s3_client = "client") => pc' = "remove"

\* run() with no signal: the loop never ends by itself
NextRecovered ==
  \/ ValidateConfig
  \/ InitS3Created
  \/ InitCamera
  \/ UploadPendingList
  \/ UploadPendingNext
  \/ UploadPendingDone
  \/ UploadPutRecovered
  \/ UploadRemove
  \/ CaptureBegin
  \/ CaptureEnd
  \/ Sleep

\* a running interpreter takes its next step
SpecRecovered == InitValid /\ [][NextRecovered]_vars /\ WF_vars(NextRecovered)


\* ======================= properties =======================

HasObject(ts) == \E o \in bucket : o.Key = <<"cameras", camera_id, ts, "jpg">>
FileOf(ts) == <<ts, "jpg">>
NewUploadPending == pc = "put" /\ caller = "new"
MissingRequired ==
  \/ s3_endpoint = ""
  \/ s3_access_key = ""
  \/ s3_secret_key = ""
  \/ s3_bucket = ""
  \/ camera_id \in {"", "cam-unknown"}

\* C1: every capture for which capture_image returned a path is, in every later
\* state, either an object of the bucket under its timestamp or still a file of
\* the fallback directory.
C1_NoCaptureDropped ==
  \A ts \in captured : HasObject(ts) \/ FileOf(ts) \in files

\* C2: after an upload attempt returns False its fallback-directory entry is
\* present (until a later attempt for it succeeds), and the listing of the next
\* upload_pending contains it.
C2_FailedUploadStaysQueued ==
  /\ failed \subseteq files
  /\ (pc = "drain" /\ attempts = NoAttempts) => failed \subseteq pending_files

\* C3: when upload_to_s3 returns True the file is gone from the fallback directory
\* and the bucket holds an object at cameras/{camera_id}/{timestamp}.jpg whose
\* metadata are the camera id, that timestamp and the agent tag.
C3_SuccessRemovesAndStores ==
  last_result = "true" =>
    /\ local_path \notin files
    /\ \E o \in bucket :
         /\ o.Key = <<"cameras", camera_id, local_path[1], "jpg">>
         /\ o.ContentType = "image/jpeg"
         /\ o.Metadata.camera_id = camera_id
         /\ o.Metadata.captured_at = local_path[1]
         /\ o.Metadata.source = "viali-raspberry-pi"
C3_Witness ==
  last_result = "true" /\ caller = "drain" /\ files # {}

\* C4: once the tick is past its drain (the capture is next, under way or done),
\* every entry that was in the directory at the start of the tick has had exactly
\* one upload attempt in this tick, no other path has had one, and nothing of the
\* listing is left to visit.
C4_DrainOnceBeforeCapture ==
  (pc \in {"capture", "capturing", "sleep"} \/ (pc \in {"put", "remove"} /\ caller = "new")) =>
    /\ pending_files = {}
    /\ \A p \in AllPaths : attempts[p] = IF p \in listed THEN 1 ELSE 0
C4_Witness ==
  pc = "capturing" /\ Cardinality(listed) >= 2 /\ \A p \in listed : attempts[p] = 1

\* C5: when capture_image has returned a path and its first upload attempt has
\* not started, the file of that capture is in the fallback directory.
C5_CaptureIsDurableBeforeUpload ==
  NewUploadPending => local_path \in files

\* C6 (as stated): no step of upload_to_s3 changes the fallback directory, and a
\* file leaves the directory only in a step of the caller, after upload_to_s3
\* returned True.
C6_UploadNeverDeletes ==
  [][ /\ (pc \in {"put", "remove"} => files' = files)
      /\ ((files \ files') # {} => (pc \in {"drain", "sleep"} /\ last_result = "true")) ]_vars

\* C6 (amended): a file leaves the fallback directory only in the last step of
\* upload_to_s3, which removes exactly the uploaded file, after put_object was
\* acknowledged for it, and then returns True; an attempt that returns False
\* leaves the directory as it was.
C6_OnlyUploadDeletesAfterAck ==
  [][ /\ ((files \ files') # {} =>
            /\ pc = "remove"
            /\ files \ files' = {local_path}
            /\ HasObject(local_path[1])
            /\ last_result' = "true")
      /\ ((pc \in {"put", "remove"} /\ last_result' = "false") => files' = files) ]_vars
C6_Witness ==
  last_result = "true" /\ caller = "new" /\ local_path \notin files

\* C7: when capture_image returns None, None the fallback directory holds the
\* files it held before the call, and the tick goes to sleep without an upload.
C7_FailedCaptureLeavesNothing ==
  [][ (pc = "capturing" /\ pc' \notin {"put", "finally"}) =>
        (pc' = "sleep" /\ files' = files) ]_vars

\* C8: with a required configuration field missing (or the default camera id) the
\* process gets no further than validation: neither the storage connect nor the
\* camera initialisation is attempted, and it exits with a non-zero code.
C8_MissingConfigFailsFast ==
  MissingRequired =>
    /\ pc \in {"validate", "exited"}
    /\ ~s3_attempted /\ ~cam_attempted
    /\ s3_client = "None" /\ camera = "None"
    /\ pc = "exited" => exit_code # 0
C8_Witness ==
  /\ pc = "exited" /\ exit_kind = "config" /\ exit_code = 1
  /\ camera_id = "cam-unknown" /\ s3_bucket # ""

\* C9: a failed init_s3 never ends the process (only an interrupt does before the
\* camera is opened), and while init_s3 has failed and nothing was ever
\* acknowledged by the bucket, every capture that returned a path is a file of
\* the fallback directory.
C9_DegradedModeAccumulates ==
  /\ (degraded /\ ~cam_attempted /\ pc = "exited") => exit_kind = "interrupt_startup"
  /\ (degraded /\ bucket = {}) => \A ts \in captured : FileOf(ts) \in files

\* C10: the camera is never opened before the storage connect was attempted; when
\* init_camera fails the process has exited with a non-zero code without entering
\* the loop, and the fallback directory is as it was when the process started.
C10_ConnectBeforeOpenAndCameraFatal ==
  /\ cam_attempted => s3_attempted
  /\ (cam_attempted /\ cam_state \notin {"started", "released"}) =>
       /\ pc = "exited" /\ exit_kind = "camera" /\ exit_code # 0
       /\ ~ran_loop
       /\ files = files_at_start
C10_Witness ==
  exit_kind = "camera" /\ cam_state = "acquired" /\ s3_attempted /\ degraded

\* C11: an upload attempt that is not acknowledged and not interrupted returns
\* False to its caller, also with s3_client None: the process does not exit, the
\* drain goes on with the entries it has not visited yet, and the upload of a new
\* capture is followed by the sleep.
C11_StorageFailureIsAValue ==
  [][ (/\ pc \in {"put", "remove"}
       /\ pc' # "remove"
       /\ last_result' # "true"
       /\ ~(pc' = "finally" /\ last_result' = "none"))
      => /\ last_result' = "false"
         /\ pc' = IF caller = "drain" THEN "drain" ELSE "sleep"
         /\ pending_files' = pending_files
         /\ exit_code' = -1 /\ exit_kind' = "running"
         /\ cam_state' = "started" ]_vars
C11_Witness ==
  /\ s3_client = "None" /\ last_result = "false"
  /\ caller = "drain" /\ pc = "drain" /\ pending_files # {}

\* C12: a process that was in the loop and has stopped has exit code 0 and has
\* released its camera, for CameraCapture and for USBCameraCapture.
C12_SignalStopsReleasedExitZero ==
  (pc = "exited" /\ ran_loop) => (exit_code = 0 /\ cam_state = "released")

\* C13: in every state where the process has exited, a camera handle that was
\* created has been released.
C13_EveryExitReleasesCamera ==
  pc = "exited" => cam_state \in {"none", "released"}

\* C14: the loop is left for the finally clause only from the sleep, never while
\* upload_pending, capture_image or upload_to_s3 is under way, and the step that
\* leaves it changes neither the fallback directory nor the bucket.
C14_ShutdownIsCooperative ==
  [][ (pc # "finally" /\ pc' = "finally") =>
        (pc = "sleep" /\ files' = files /\ bucket' = bucket) ]_vars

\* C15: with a one-second interval, put_object acknowledged in ticks 1 and 3 and
\* failing in tick 2, and every capture written, at the end of tick 3 the fallback
\* directory is empty and the bucket holds three objects with three different
\* captured_at timestamps and three different keys.
C15_ThreeTicksDeliverThree ==
  (Tick = 3 /\ pc = "sleep") =>
    /\ files = {}
    /\ Cardinality(bucket) = 3
    /\ Cardinality({o.Metadata.captured_at : o \in bucket}) = 3
    /\ Cardinality({o.Key : o \in bucket}) = 3
C15_Witness ==
  /\ Tick = 3 /\ pc = "sleep"
  /\ listed = {<<strftime(now - 1), "jpg">>}
  /\ last_result = "true" /\ caller = "new"

\* C16: once put_object was acknowledged, the removal step returns True whether
\* or not the file is still in the fallback directory.
C16_RemoveIsIdempotent ==
  [][ (pc = "remove" /\ pc' # "finally") => last_result' = "true" ]_vars

\* C17: outside the one position between the acknowledgement and the os.remove of
\* upload_to_s3, every file of the fallback directory is the file of a capture
\* that returned a path and that the bucket holds no object for.
C17_FilesAreUndeliveredCaptures ==
  pc # "remove" =>
    \A f \in files : f[1] \in captured /\ ~HasObject(f[1])

\* C18: a capture that returns a path has a timestamp that no earlier capture
\* had, and its path is not a file of the fallback directory already.
C18_TimestampUniquePerCapture ==
  [][ (pc = "capturing" /\ pc' = "put") =>
        (timestamp \notin captured /\ local_path \notin files) ]_vars

\* C19: the timestamp an upload is made with is the one in the file's name, for a
\* new capture and for a pending entry alike; every object of the bucket has the
\* key built from its captured_at, a timestamp capture_image made; an acknowledged
\* upload of a capture the bucket already holds (a retry after the process was cut
\* between put_object and os.remove) replaces that object, so the bucket never
\* holds two objects for one capture.
C19_RetryTargetsSameObject ==
  /\ [](pc \in {"put", "remove"} => local_path = <<timestamp, "jpg">>)
  /\ [](\A o \in bucket :
          /\ \E t \in 0..MaxTime : o.Metadata.captured_at = strftime(t)
          /\ o.Key = <<"cameras", camera_id, o.Metadata.captured_at, "jpg">>)
  /\ [](\A o1, o2 \in bucket :
          o1.Metadata.captured_at = o2.Metadata.captured_at => o1 = o2)
  /\ [][ (pc = "put" /\ pc' = "remove") =>
          /\ HasObject(timestamp)'
          /\ Cardinality(bucket') =
               Cardinality(bucket) + (IF HasObject(timestamp) THEN 0 ELSE 1) ]_vars
C19_Witness ==
  /\ pc = "put" /\ caller = "drain" /\ restarts = 1
  /\ local_path \in files /\ s3_client = "client"
  /\ HasObject(timestamp) /\ timestamp \in captured

\* the two halves of C20
DeliveredEventually ==
  \A f \in AllPaths :
    (Recovered /\ pc = "upload_pending" /\ f \in files)
      ~> (f \notin files /\ HasObject(f[1]))
EmptyAtEndOfTick ==
  (Recovered /\ pc = "sleep") => files = {}

\* C20: once the storage has recovered (also after init_s3 had failed), every
\* file that is in the fallback directory when a tick starts is eventually
\* uploaded and removed, and at the end of every tick (the loop is at its sleep)
\* the fallback directory is empty.
C20_EventualDelivery ==
  DeliveredEventually /\ []EmptyAtEndOfTick

\* C1, C2, C5 and C9 fail only through USBCameraCapture.capture_image
PiOnly_C1 == variant = "pi" => C1_NoCaptureDropped
PiOnly_C2 == variant = "pi" => C2_FailedUploadStaysQueued
PiOnly_C5 == variant = "pi" => C5_CaptureIsDurableBeforeUpload
PiOnly_C9 == variant = "pi" => C9_DegradedModeAccumulates

TypeOK ==
  /\ pc \in {"validate", "init_s3", "init_camera", "upload_pending", "drain", "put",
             "remove", "capture", "capturing", "sleep", "finally", "exited"}
  /\ files \subseteq AllPaths
  /\ pending_files \subseteq AllPaths
  /\ now \in 0..MaxTime
  /\ captured \subseteq Timestamps
====
